---------------------------- MODULE Spec2Model ----------------------------
(***************************************************************************)
(* Model of src/App.py (Rebalance - Portfolio Manager): the calculation    *)
(* methods of PortfolioManager and the part of main() that decides which   *)
(* of them run.                                                            *)
(*                                                                         *)
(* Money and percentages are Python floats in the source.  They are        *)
(* modelled as exact rationals [n |-> numerator, d |-> denominator] in     *)
(* lowest terms with d > 0, so the thresholds of the source (0.01, 0.5)    *)
(* and amounts smaller than them are represented exactly.                  *)
(***************************************************************************)
EXTENDS Integers, Sequences, FiniteSets, TLC

VARIABLES
    pc,              \* position in the program
    assets,          \* st.session_state.assets / the assets argument
    portfolio_name,  \* st.session_state.portfolio_name
    surfaced,        \* what main() has shown: "none", "error", "success"
    invoked,         \* the strategies that have been called
    portfolio_data,  \* result of calculate_portfolio_metrics
    rebalancing_df,  \* result of calculate_standard_rebalancing
    lump,            \* call record of calculate_lump_sum_rebalancing
    params,          \* additional_amount and monthly_amount
    pac,             \* locals and result of calculate_pac_rebalancing
    json_data,       \* text produced by save_portfolio / given to load_portfolio
    loaded           \* outcome of load_portfolio

vars == <<pc, assets, portfolio_name, surfaced, invoked, portfolio_data,
          rebalancing_df, lump, params, pac, json_data, loaded>>

---------------------------------------------------------------------------
(* Evaluation helpers: Op applied to arguments that are computed once.     *)

Once(v, Op(_)) == CHOOSE r \in {Op(a) : a \in {v}} : TRUE
Once2(v, w, Op(_, _)) == CHOOSE r \in {Op(a, b) : a \in {v}, b \in {w}} : TRUE
Once3(u, v, w, Op(_, _, _)) ==
    CHOOSE r \in {Op(a, b, c) : a \in {u}, b \in {v}, c \in {w}} : TRUE

---------------------------------------------------------------------------
(* Exact rational arithmetic standing for Python float arithmetic.         *)

RECURSIVE GCD(_, _)
GCD(a, b) == IF b = 0 THEN a ELSE GCD(b, a % b)

IAbs(i) == IF i < 0 THEN -i ELSE i

\* n/d in lowest terms, d # 0
RV(n, d) ==
    Once(GCD(IAbs(n), IAbs(d)),
         LAMBDA g : IF d < 0 THEN [n |-> (-n) \div g, d |-> (-d) \div g]
                    ELSE [n |-> n \div g, d |-> d \div g])
R(n, d) == Once2(n, d, RV)

Zero == [n |-> 0, d |-> 1]
Hundred == [n |-> 100, d |-> 1]

\* the operations cancel common factors before they multiply
AddV(x, y) ==
    Once(GCD(x.d, y.d),
         LAMBDA g : R(x.n * (y.d \div g) + y.n * (x.d \div g), (x.d \div g) * y.d))
Add(x, y) == Once2(x, y, AddV)

Neg(x) == Once(x, LAMBDA v : [n |-> -v.n, d |-> v.d])

Sub(x, y) == Add(x, Neg(y))

MulV(x, y) ==
    IF x.n = 0 \/ y.n = 0 THEN [n |-> 0, d |-> 1]
    ELSE Once2(GCD(IAbs(x.n), y.d), GCD(IAbs(y.n), x.d),
               LAMBDA g1, g2 : [n |-> (x.n \div g1) * (y.n \div g2),
                                d |-> (x.d \div g2) * (y.d \div g1)])
Mul(x, y) == Once2(x, y, MulV)

\* 1/y, y # 0
Inv(y) ==
    Once(y, LAMBDA v : IF v.n < 0 THEN [n |-> -v.d, d |-> -v.n]
                       ELSE [n |-> v.d, d |-> v.n])

Div(x, y) == Mul(x, Inv(y))

\* x < y, by the integer parts and then by the remainders inverted
RECURSIVE LtV(_, _)
LtV(x, y) ==
    IF x.n \div x.d # y.n \div y.d THEN x.n \div x.d < y.n \div y.d
    ELSE IF y.n % y.d = 0 THEN FALSE
    ELSE IF x.n % x.d = 0 THEN TRUE
    ELSE Once2([n |-> y.d, d |-> y.n % y.d], [n |-> x.d, d |-> x.n % x.d], LtV)
Lt(x, y) == Once2(x, y, LtV)

Le(x, y) == ~Lt(y, x)
Gt(x, y) == Lt(y, x)

Abs(x) == Once(x, LAMBDA v : [n |-> IAbs(v.n), d |-> v.d])

Max(x, y) == Once2(x, y, LAMBDA v, w : IF Lt(v, w) THEN w ELSE v)
Min(x, y) == Once2(x, y, LAMBDA v, w : IF Lt(w, v) THEN w ELSE v)

\* int(np.ceil(x))
Ceil(x) ==
    Once(x, LAMBDA v : IF v.n % v.d = 0 THEN v.n \div v.d ELSE (v.n \div v.d) + 1)

\* sum(...) of a sequence of rationals
RECURSIVE SumTo(_, _)
SumTo(s, i) == IF i = 0 THEN Zero ELSE Add(SumTo(s, i - 1), s[i])
SumSeq(s) == Once(s, LAMBDA v : SumTo(v, Len(v)))

\* f"{x:.2f}": x rounded to a whole number of cents, ties to even; the two
\* decimals are taken one at a time
Digit(r, d) == [q |-> (r * 10) \div d, r |-> (r * 10) % d]
Format2V(x) ==
    Once(Digit(x.n % x.d, x.d), LAMBDA d1 :
    Once(Digit(d1.r, x.d), LAMBDA d2 :
    Once((x.n \div x.d) * 100 + d1.q * 10 + d2.q, LAMBDA f :
        IF 2 * d2.r < x.d THEN f
        ELSE IF 2 * d2.r > x.d THEN f + 1
        ELSE IF f % 2 = 0 THEN f ELSE f + 1)))
Format2(x) == Once(x, Format2V)

\* the literals of the source
Cent == [n |-> 1, d |-> 100]
HalfPct == [n |-> 1, d |-> 2]

---------------------------------------------------------------------------
(* PortfolioManager.validate_targets                                       *)

TargetsOf(as) == [i \in 1..Len(as) |-> as[i].target]

TotalTarget(as) ==
    SumSeq(TargetsOf(SelectSeq(as, LAMBDA a : Gt(a.target, Zero))))

validate_targets_loose(as) ==
    Once(TotalTarget(as), LAMBDA total_target :
        [is_valid |-> Le(Abs(Sub(total_target, Hundred)), Cent),
         total_target |-> total_target])

validate_targets(as) ==
    Once(TotalTarget(as), LAMBDA total_target :
        [is_valid |-> Lt(Abs(Sub(total_target, Hundred)), Cent),
         total_target |-> total_target])

(* PortfolioManager.calculate_portfolio_metrics                            *)

Held(as) == SelectSeq(as, LAMBDA a : Gt(a.current_value, Zero))

TotalValue(held) == SumSeq([i \in 1..Len(held) |-> held[i].current_value])

AssetMetricOfOwnValue(asset, total_value) ==
    Once(Mul(Div(asset.target, Hundred), asset.current_value), LAMBDA target_value :
        [nome |-> asset.name,
         valore_attuale |-> asset.current_value,
         pct_attuale |-> Mul(Div(asset.current_value, total_value), Hundred),
         pct_target |-> asset.target,
         valore_target |-> target_value,
         differenza |-> Sub(target_value, asset.current_value)])

AssetMetric(asset, total_value) ==
    Once(Mul(Div(asset.target, Hundred), total_value), LAMBDA target_value :
        [nome |-> asset.name,
         valore_attuale |-> asset.current_value,
         pct_attuale |-> Mul(Div(asset.current_value, total_value), Hundred),
         pct_target |-> asset.target,
         valore_target |-> target_value,
         differenza |-> Sub(target_value, asset.current_value)])

MetricsOf(held, total_value) ==
    IF total_value = Zero
    THEN [total_value |-> Zero, assets_data |-> <<>>]
    ELSE [total_value |-> total_value,
          assets_data |-> [i \in 1..Len(held) |-> AssetMetric(held[i], total_value)]]

calculate_portfolio_metrics(as) ==
    Once(Held(as), LAMBDA held : Once(TotalValue(held), LAMBDA total_value :
        MetricsOf(held, total_value)))

(* PortfolioManager.calculate_standard_rebalancing                         *)

StandardRow(asset) ==
    [Asset |-> asset.nome,
     Azione |-> IF Gt(asset.differenza, Zero) THEN "Acquista" ELSE "Vendi",
     Importo |-> Format2(Abs(asset.differenza)),
     Importo_num |-> Abs(asset.differenza)]

NeedsTradeAlways(asset) == asset.differenza # Zero

\* abs(difference) > 0.01
NeedsTrade(asset) == Gt(Abs(asset.differenza), Cent)

\* one row per entry that needs a trade, in the order of the entries
RowsOf(data, Keep(_), Row(_)) ==
    Once(SelectSeq(data, Keep), LAMBDA kept : [i \in 1..Len(kept) |-> Row(kept[i])])

calculate_standard_rebalancing(pd) ==
    RowsOf(pd.assets_data, NeedsTrade, StandardRow)

(* PortfolioManager.calculate_lump_sum_rebalancing                         *)

\* amount_to_invest of one snapshot entry for the new total
AmountToInvest(asset, new_total_value) ==
    Sub(Mul(Div(asset.pct_target, Hundred), new_total_value), asset.valore_attuale)

LumpRow(asset, new_total_value) ==
    Once(AmountToInvest(asset, new_total_value), LAMBDA amount_to_invest :
        [Asset |-> asset.nome,
         Valore_Attuale |-> Format2(asset.valore_attuale),
         Valore_Target |->
             Format2(Mul(Div(asset.pct_target, Hundred), new_total_value)),
         Da_Investire |-> Format2(amount_to_invest),
         Importo_num |-> amount_to_invest])

\* the rows appended at lines 97-105
AllocationData(data, new_total_value) ==
    RowsOf(data,
           LAMBDA asset : Gt(AmountToInvest(asset, new_total_value), Cent),
           LAMBDA asset : LumpRow(asset, new_total_value))

ImportoNum(rows) == [i \in 1..Len(rows) |-> rows[i].Importo_num]

ScaleRowWrong(row, scale_factor) == row

ScaleRow(row, scale_factor) ==
    [row EXCEPT !.Da_Investire = Format2(Mul(row.Importo_num, scale_factor)),
                !.Importo_num = Mul(row.Importo_num, scale_factor)]

\* df.drop('Importo_num', axis=1)
DropImportoNum(df) ==
    [i \in 1..Len(df) |-> [Asset |-> df[i].Asset,
                           Valore_Attuale |-> df[i].Valore_Attuale,
                           Valore_Target |-> df[i].Valore_Target,
                           Da_Investire |-> df[i].Da_Investire]]

\* line 119: df as it stands there, and the frame that is returned
LumpReturn(additional_amount, total_to_invest, warning, df) ==
    [additional_amount |-> additional_amount,
     total_to_invest |-> total_to_invest,
     warning |-> warning,
     df |-> df,
     returned |-> DropImportoNum(df)]

\* lines 107-119
LumpResult(allocation_data, total_to_invest, additional_amount) ==
    IF allocation_data # <<>> /\ Gt(total_to_invest, additional_amount)
    THEN Once(Div(additional_amount, total_to_invest), LAMBDA scale_factor :
            LumpReturn(additional_amount, total_to_invest, TRUE,
                       [i \in 1..Len(allocation_data) |->
                           ScaleRow(allocation_data[i], scale_factor)]))
    ELSE LumpReturn(additional_amount, total_to_invest, FALSE, allocation_data)

calculate_lump_sum_rebalancing(pd, additional_amount) ==
    Once(AllocationData(pd.assets_data, Add(pd.total_value, additional_amount)),
         LAMBDA allocation_data :
             LumpResult(allocation_data, SumSeq(ImportoNum(allocation_data)),
                        additional_amount))

(* PortfolioManager.calculate_pac_rebalancing                              *)

\* Python dicts keyed by asset name are functions on the set of their keys.
Names(data) == {data[i].nome : i \in 1..Len(data)}

\* the last entry of data called nm
Last(data, nm) ==
    data[CHOOSE i \in 1..Len(data) :
            /\ data[i].nome = nm
            /\ \A j \in (i + 1)..Len(data) : data[j].nome # nm]

\* sum(d.values()) of a dict, the keys taken in a fixed order
KeyOrder == <<"", "A", "B", "C", "D">>
SumValues(f) ==
    Once(f, LAMBDA v :
        SumSeq([i \in 1..Len(KeyOrder) |->
                   IF KeyOrder[i] \in DOMAIN v THEN v[KeyOrder[i]] ELSE Zero]))

CurrentPct(asset, pd) == Mul(Div(asset.valore_attuale, pd.total_value), Hundred)

Underweight(asset, pd) == Lt(CurrentPct(asset, pd), asset.pct_target)

\* deficit_amount of one entry: (pct_target - current_pct) / 100 * current_total
DeficitAmount(asset, pd) ==
    Mul(Div(Sub(asset.pct_target, CurrentPct(asset, pd)), Hundred), pd.total_value)

UnderweightEntries(pd) == SelectSeq(pd.assets_data, LAMBDA a : Underweight(a, pd))

\* total_deficit accumulates over every underweight entry
TotalDeficit(pd) ==
    Once(UnderweightEntries(pd), LAMBDA under :
        SumSeq([i \in 1..Len(under) |-> DeficitAmount(under[i], pd)]))

\* deficits[nome]: a later entry of the same name overwrites an earlier one
Deficits(pd) ==
    Once(UnderweightEntries(pd), LAMBDA under :
        [nm \in Names(under) |->
            Once(Last(under, nm), LAMBDA a :
                [deficit |-> DeficitAmount(a, pd),
                 target_pct |-> a.pct_target,
                 current_pct |-> CurrentPct(a, pd)])])

\* {asset['nome']: asset['valore_attuale'] for asset in assets_data}
InitialValues(pd) ==
    [nm \in Names(pd.assets_data) |-> Last(pd.assets_data, nm).valore_attuale]

\* total_deficit <= 0.01
AlreadyBalanced(total_deficit) == Le(total_deficit, Cent)

\* int(np.ceil(total_deficit / monthly_amount))
MonthsNeeded(total_deficit, monthly_amount) ==
    Ceil(Div(total_deficit, monthly_amount))

\* lines 163-174: needed of one name of deficits, Zero when it is left out
Needed(info, current_value, current_total, monthly_amount) ==
    IF Lt(IF Gt(current_total, Zero)
          THEN Mul(Div(current_value, current_total), Hundred) ELSE Zero,
          info.target_pct)
    THEN Max(Zero, Sub(Mul(Div(info.target_pct, Hundred),
                           Add(current_total, monthly_amount)),
                       current_value))
    ELSE Zero

\* month_investments of one month: the needs above one cent
MonthInvestments(deficits, current_values, monthly_amount) ==
    Once(SumValues(current_values), LAMBDA current_total :
    Once([nm \in DOMAIN deficits |->
             Needed(deficits[nm], current_values[nm], current_total, monthly_amount)],
         LAMBDA needed :
             [nm \in {k \in DOMAIN deficits : Gt(needed[k], Cent)} |-> needed[nm]]))

InvestmentUncapped(needed, total_month_need, monthly_amount) ==
    Mul(Div(needed, total_month_need), monthly_amount)

\* investment = min(needed, (needed / total_month_need) * monthly_amount)
Investment(needed, total_month_need, monthly_amount) ==
    Min(needed, Mul(Div(needed, total_month_need), monthly_amount))

\* lines 180-187: the proportional investments that are made (above one cent)
Proportional(month_investments, monthly_amount) ==
    Once(SumValues(month_investments), LAMBDA total_month_need :
    Once([nm \in DOMAIN month_investments |->
             Investment(month_investments[nm], total_month_need, monthly_amount)],
         LAMBDA investment :
             [nm \in {k \in DOMAIN investment : Gt(investment[k], Cent)} |->
                 investment[nm]]))

\* dict[nm] += amount for every nm of amounts
Credit(current_values, amounts) ==
    [nm \in DOMAIN current_values |->
        IF nm \in DOMAIN amounts THEN Add(current_values[nm], amounts[nm])
        ELSE current_values[nm]]

NoAsset == [found |-> FALSE, nome |-> "", underweight |-> Zero]

\* lines 192-201: the first entry with the largest underweight above 0
RECURSIVE MostUnderweightTo(_, _, _, _)
MostUnderweightTo(data, i, current_values, current_total_new) ==
    IF i = 0 THEN NoAsset
    ELSE Once2(MostUnderweightTo(data, i - 1, current_values, current_total_new),
               Sub(data[i].pct_target,
                   Mul(Div(current_values[data[i].nome], current_total_new), Hundred)),
               LAMBDA best, underweight :
                   IF Gt(underweight, best.underweight)
                   THEN [found |-> TRUE, nome |-> data[i].nome,
                         underweight |-> underweight]
                   ELSE best)

MostUnderweight(data, current_values) ==
    Once(SumValues(current_values), LAMBDA current_total_new :
        MostUnderweightTo(data, Len(data), current_values, current_total_new))

\* lines 203-206: the leftover goes to the asset found, unless its name is
\* empty ("if most_underweight_asset" is false for None and for "")
Routed(pd, prop, after_prop, remaining_budget) ==
    IF Gt(remaining_budget, Cent)
    THEN Once(MostUnderweight(pd.assets_data, after_prop), LAMBDA most :
            IF most.found /\ most.nome # ""
            THEN [nm \in {most.nome} |-> remaining_budget]
            ELSE [nm \in {} |-> Zero])
    ELSE [nm \in {} |-> Zero]

\* the text of month_data, in whole cents: the leftover is added to the text
\* of the proportional investment read back
Shown(prop, routed) ==
    [nm \in (DOMAIN prop) \cup (DOMAIN routed) |->
        IF nm \in DOMAIN routed
        THEN Format2(Add(R(IF nm \in DOMAIN prop THEN Format2(prop[nm]) ELSE 0, 100),
                         routed[nm]))
        ELSE Format2(prop[nm])]

\* the amounts added to current_values in the month
Added(prop, routed) ==
    [nm \in (DOMAIN prop) \cup (DOMAIN routed) |->
        Add(IF nm \in DOMAIN prop THEN prop[nm] ELSE Zero,
            IF nm \in DOMAIN routed THEN routed[nm] ELSE Zero)]

MonthOutcome(current_values, prop, routed) ==
    [current_values |-> Credit(Credit(current_values, prop), routed),
     month_data |-> Shown(prop, routed),
     added |-> Added(prop, routed),
     shares |-> prop,
     routed |-> routed,
     leftover |-> DOMAIN routed # {}]

DistributeWholeBudget(pd, current_values, monthly_amount, month_investments) ==
    IF DOMAIN month_investments # {} /\ Gt(SumValues(month_investments), Zero)
    THEN Once(Proportional(month_investments, monthly_amount), LAMBDA prop :
         Once(Credit(current_values, prop), LAMBDA after_prop :
         Once(Routed(pd, prop, after_prop, monthly_amount),
              LAMBDA routed : MonthOutcome(current_values, prop, routed))))
    ELSE MonthOutcome(current_values, [nm \in {} |-> Zero], [nm \in {} |-> Zero])

\* lines 176-206 for the month_investments found
Distribute(pd, current_values, monthly_amount, month_investments) ==
    IF DOMAIN month_investments # {} /\ Gt(SumValues(month_investments), Zero)
    THEN Once(Proportional(month_investments, monthly_amount), LAMBDA prop :
         Once(Credit(current_values, prop), LAMBDA after_prop :
         Once(Routed(pd, prop, after_prop, Sub(monthly_amount, SumValues(prop))),
              LAMBDA routed : MonthOutcome(current_values, prop, routed))))
    ELSE MonthOutcome(current_values, [nm \in {} |-> Zero], [nm \in {} |-> Zero])

\* One pass of the body of the month loop: the values after it, the text
\* entries of month_data and the amounts added per name.
MonthStep(pd, deficits, current_values, monthly_amount) ==
    Once(MonthInvestments(deficits, current_values, monthly_amount),
         LAMBDA month_investments :
             Distribute(pd, current_values, monthly_amount, month_investments))

\* lines 216-222
Balanced(pd, current_values) ==
    Once(SumValues(current_values), LAMBDA final_total :
        \A i \in 1..Len(pd.assets_data) :
            Le(Abs(Sub(Mul(Div(current_values[pd.assets_data[i].nome], final_total),
                           Hundred),
                       pd.assets_data[i].pct_target)),
               HalfPct))

---------------------------------------------------------------------------
(* json.dumps(..., indent=2, ensure_ascii=False) and json.loads.  A text   *)
(* is a sequence of characters.  A Python value is a record [t, v]: t the  *)
(* type, v a sequence of characters (str), a rational (float), an integer  *)
(* (int), a sequence of values (list) or a sequence of <<key, value>> in   *)
(* insertion order (dict).                                                 *)

PyStr(s) == [t |-> "str", v |-> s]
PyNum(x) == [t |-> "float", v |-> x]
PyInt(i) == [t |-> "int", v |-> i]
PyList(l) == [t |-> "list", v |-> l]
PyDict(items) == [t |-> "dict", v |-> items]
PyNone == [t |-> "NoneType", v |-> <<>>]
PyBool(b) == [t |-> "bool", v |-> b]

DigitChars == <<"0", "1", "2", "3", "4", "5", "6", "7", "8", "9">>
IsDigit(c) == \E d \in 1..10 : DigitChars[d] = c
DigitVal(c) == (CHOOSE d \in 1..10 : DigitChars[d] = c) - 1

\* the decimal digits of a natural number
RECURSIVE IntChars(_)
IntChars(i) ==
    IF i < 10 THEN <<DigitChars[i + 1]>>
    ELSE Append(IntChars(i \div 10), DigitChars[(i % 10) + 1])

\* the digits after the point of r/d, r < d, to the last one that is not 0
RECURSIVE FracChars(_, _)
FracChars(r, d) ==
    IF r = 0 THEN <<>>
    ELSE <<DigitChars[((r * 10) \div d) + 1]>> \o FracChars((r * 10) % d, d)

\* float.__repr__ of a decimal fraction: "800.0", "100.01", "-0.5"
FloatReprV(x) ==
    (IF x.n < 0 THEN <<"-">> ELSE <<>>)
        \o IntChars(IAbs(x.n) \div x.d) \o <<".">>
        \o (IF IAbs(x.n) % x.d = 0 THEN <<"0">> ELSE FracChars(IAbs(x.n) % x.d, x.d))
FloatRepr(x) == Once(x, FloatReprV)

EscapeCharRaw(c) == <<c>>

\* the escapes of json.dumps with ensure_ascii=False: any other character,
\* ASCII or not, is written as it is
EscapeChar(c) ==
    CASE c = "\"" -> <<"\\", "\"">>
      [] c = "\\" -> <<"\\", "\\">>
      [] c = "\n" -> <<"\\", "n">>
      [] c = "\t" -> <<"\\", "t">>
      [] OTHER -> <<c>>

RECURSIVE EscapeTo(_, _)
EscapeTo(s, i) == IF i = 0 THEN <<>> ELSE EscapeTo(s, i - 1) \o EscapeChar(s[i])

EncodeString(s) ==
    Once(s, LAMBDA v : <<"\"">> \o EscapeTo(v, Len(v)) \o <<"\"">>)

\* a line break and the indentation of a nesting level
RECURSIVE Spaces(_)
Spaces(k) == IF k = 0 THEN <<>> ELSE <<" ">> \o Spaces(k - 1)
NewLine(level) == <<"\n">> \o Spaces(2 * level)

\* parts[1], parts[2], ... each on a line of its own, separated by commas
RECURSIVE JoinTo(_, _, _)
JoinTo(parts, i, level) ==
    IF i = 0 THEN <<>>
    ELSE JoinTo(parts, i - 1, level)
             \o (IF i > 1 THEN <<",">> ELSE <<>>) \o NewLine(level) \o parts[i]

RECURSIVE Dumps(_, _)
DumpsV(o, level) ==
    CASE o.t = "str" -> EncodeString(o.v)
      [] o.t = "float" -> FloatRepr(o.v)
      [] o.t = "int" -> (IF o.v < 0 THEN <<"-">> ELSE <<>>) \o IntChars(IAbs(o.v))
      [] o.t = "NoneType" -> <<"n", "u", "l", "l">>
      [] o.t = "bool" -> IF o.v THEN <<"t", "r", "u", "e">>
                         ELSE <<"f", "a", "l", "s", "e">>
      [] o.t = "list" ->
            IF Len(o.v) = 0 THEN <<"[", "]">>
            ELSE <<"[">>
                 \o JoinTo([i \in 1..Len(o.v) |-> Dumps(o.v[i], level + 1)],
                           Len(o.v), level + 1)
                 \o NewLine(level) \o <<"]">>
      [] o.t = "dict" ->
            IF Len(o.v) = 0 THEN <<"{", "}">>
            ELSE <<"{">>
                 \o JoinTo([i \in 1..Len(o.v) |->
                               EncodeString(o.v[i][1]) \o <<":", " ">>
                                   \o Dumps(o.v[i][2], level + 1)],
                           Len(o.v), level + 1)
                 \o NewLine(level) \o <<"}">>
Dumps(o, level) == Once2(o, level, DumpsV)

(* json.loads: the decoder of the standard library                         *)

ParseFail == [ok |-> FALSE, val |-> PyNone, pos |-> 0]
Parsed(val, pos) == [ok |-> TRUE, val |-> val, pos |-> pos]

Whitespace == {" ", "\n", "\t", "\r"}

\* the first position from pos on that holds no white space
RECURSIVE SkipWs(_, _)
SkipWsV(text, pos) ==
    IF pos <= Len(text) /\ text[pos] \in Whitespace
    THEN SkipWs(text, pos + 1) ELSE pos
SkipWs(text, pos) == Once2(text, pos, SkipWsV)

Unescape(c) ==
    CASE c = "n" -> "\n"
      [] c = "t" -> "\t"
      [] OTHER -> c

\* a string from the character after its opening quote; a control character
\* in it and an escape other than \" \\ \/ \n \t (the escapes of the texts
\* at hand) end the decoding
RECURSIVE ScanString(_, _, _)
ScanStringV(text, pos, acc) ==
    IF pos > Len(text) THEN ParseFail
    ELSE IF text[pos] = "\"" THEN Parsed(PyStr(acc), pos + 1)
    ELSE IF text[pos] = "\\"
         THEN IF pos + 1 <= Len(text) /\ text[pos + 1] \in {"\"", "\\", "/", "n", "t"}
              THEN ScanString(text, pos + 2, Append(acc, Unescape(text[pos + 1])))
              ELSE ParseFail
    ELSE IF text[pos] \in {"\n", "\t", "\r"} THEN ParseFail
    ELSE ScanString(text, pos + 1, Append(acc, text[pos]))
ScanString(text, pos, acc) == Once3(text, pos, acc, ScanStringV)

\* the digits from st.pos on: their value, their number, the position after
RECURSIVE ScanDigits(_, _)
ScanDigitsV(text, st) ==
    IF st.pos <= Len(text) /\ IsDigit(text[st.pos])
    THEN ScanDigits(text, [val |-> st.val * 10 + DigitVal(text[st.pos]),
                           count |-> st.count + 1,
                           pos |-> st.pos + 1])
    ELSE st
ScanDigits(text, st) == Once2(text, st, ScanDigitsV)

DigitsFrom(text, pos) == ScanDigits(text, [val |-> 0, count |-> 0, pos |-> pos])

RECURSIVE Pow10(_)
Pow10(k) == IF k = 0 THEN 1 ELSE 10 * Pow10(k - 1)

\* -?(0|[1-9]\d*)(\.\d+)?: an int without the fraction, a float with it (no
\* text at hand has an exponent)
NumberFrom(text, sign, whole) ==
    IF whole.count = 0 \/ (whole.count > 1 /\ text[whole.pos - whole.count] = "0")
    THEN ParseFail
    ELSE IF whole.pos <= Len(text) /\ text[whole.pos] = "."
    THEN Once(DigitsFrom(text, whole.pos + 1), LAMBDA frac :
            IF frac.count = 0 THEN ParseFail
            ELSE Parsed(PyNum(R(sign * (whole.val * Pow10(frac.count) + frac.val),
                                Pow10(frac.count))),
                        frac.pos))
    ELSE Parsed(PyInt(sign * whole.val), whole.pos)

ParseNumber(text, pos) ==
    IF text[pos] = "-"
    THEN Once(DigitsFrom(text, pos + 1), LAMBDA whole : NumberFrom(text, -1, whole))
    ELSE Once(DigitsFrom(text, pos), LAMBDA whole : NumberFrom(text, 1, whole))

Matches(text, pos, word) ==
    /\ pos + Len(word) - 1 <= Len(text)
    /\ SubSeq(text, pos, pos + Len(word) - 1) = word

ParseLiteral(text, pos) ==
    IF Matches(text, pos, <<"n", "u", "l", "l">>) THEN Parsed(PyNone, pos + 4)
    ELSE IF Matches(text, pos, <<"t", "r", "u", "e">>)
    THEN Parsed(PyBool(TRUE), pos + 4)
    ELSE IF Matches(text, pos, <<"f", "a", "l", "s", "e">>)
    THEN Parsed(PyBool(FALSE), pos + 5)
    ELSE ParseFail

\* d[key] = val: a key already there keeps its place
DictSet(items, key, val) ==
    IF \E i \in 1..Len(items) : items[i][1] = key
    THEN [i \in 1..Len(items) |->
             IF items[i][1] = key THEN <<key, val>> ELSE items[i]]
    ELSE Append(items, <<key, val>>)

\* d.get(key, default)
DictGet(items, key, default) ==
    IF \E i \in 1..Len(items) : items[i][1] = key
    THEN items[CHOOSE i \in 1..Len(items) : items[i][1] = key][2]
    ELSE default

RECURSIVE ParseValue(_, _)
RECURSIVE ParseItems(_, _, _)
RECURSIVE ParseMembers(_, _, _)

\* the value that starts at pos (no white space there)
ParseValueV(text, pos) ==
    IF pos > Len(text) THEN ParseFail
    ELSE CASE text[pos] = "\"" -> ScanString(text, pos + 1, <<>>)
           [] text[pos] = "[" ->
                Once(SkipWs(text, pos + 1), LAMBDA p :
                    IF p <= Len(text) /\ text[p] = "]"
                    THEN Parsed(PyList(<<>>), p + 1)
                    ELSE ParseItems(text, p, <<>>))
           [] text[pos] = "{" ->
                Once(SkipWs(text, pos + 1), LAMBDA p :
                    IF p <= Len(text) /\ text[p] = "}"
                    THEN Parsed(PyDict(<<>>), p + 1)
                    ELSE ParseMembers(text, p, <<>>))
           [] text[pos] = "-" \/ IsDigit(text[pos]) -> ParseNumber(text, pos)
           [] OTHER -> ParseLiteral(text, pos)
ParseValue(text, pos) == Once2(text, pos, ParseValueV)

\* the values of an array from the value at pos on
ParseItemsV(text, pos, acc) ==
    Once(ParseValue(text, pos), LAMBDA r :
        IF ~r.ok THEN ParseFail
        ELSE Once(SkipWs(text, r.pos), LAMBDA p :
            IF p > Len(text) THEN ParseFail
            ELSE IF text[p] = ","
            THEN ParseItems(text, SkipWs(text, p + 1), Append(acc, r.val))
            ELSE IF text[p] = "]" THEN Parsed(PyList(Append(acc, r.val)), p + 1)
            ELSE ParseFail))
ParseItems(text, pos, acc) == Once3(text, pos, acc, ParseItemsV)

\* the rest of a member of an object, from the position after its key
MemberFrom(text, acc, key, after_key) ==
    Once(SkipWs(text, after_key), LAMBDA c :
        IF c > Len(text) \/ text[c] # ":" THEN ParseFail
        ELSE Once(ParseValue(text, SkipWs(text, c + 1)), LAMBDA r :
            IF ~r.ok THEN ParseFail
            ELSE Once(SkipWs(text, r.pos), LAMBDA p :
                IF p > Len(text) THEN ParseFail
                ELSE IF text[p] = ","
                THEN ParseMembers(text, SkipWs(text, p + 1), DictSet(acc, key, r.val))
                ELSE IF text[p] = "}"
                THEN Parsed(PyDict(DictSet(acc, key, r.val)), p + 1)
                ELSE ParseFail)))

\* the members of an object from the key at pos on
ParseMembersV(text, pos, acc) ==
    IF pos > Len(text) \/ text[pos] # "\"" THEN ParseFail
    ELSE Once(ScanString(text, pos + 1, <<>>), LAMBDA k :
            IF ~k.ok THEN ParseFail ELSE MemberFrom(text, acc, k.val.v, k.pos))
ParseMembers(text, pos, acc) == Once3(text, pos, acc, ParseMembersV)

\* json.loads(text): one value, white space around it, and nothing else
LoadsV(text) ==
    Once(ParseValue(text, SkipWs(text, 1)), LAMBDA r :
        IF r.ok /\ SkipWs(text, r.pos) = Len(text) + 1
        THEN [ok |-> TRUE, val |-> r.val]
        ELSE [ok |-> FALSE, val |-> PyNone])
Loads(text) == Once(text, LoadsV)

(* PortfolioManager.save_portfolio and load_portfolio                      *)

KeyNome == <<"n", "o", "m", "e", "_", "p", "o", "r", "t", "a", "f", "o", "g", "l",
             "i", "o">>
KeyAssets == <<"a", "s", "s", "e", "t", "s">>
KeyVersione == <<"v", "e", "r", "s", "i", "o", "n", "e">>
Versione == <<"1", ".", "0">>

\* one record of st.session_state.assets as the dict it is
AssetDict(asset) ==
    PyDict(<< <<(<<"n", "a", "m", "e">>), PyStr(asset.name)>>,
              <<(<<"c", "u", "r", "r", "e", "n", "t", "_", "v", "a", "l", "u", "e">>),
                PyNum(asset.current_value)>>,
              <<(<<"t", "a", "r", "g", "e", "t">>), PyNum(asset.target)>> >>)

AssetDicts(as) == PyList([i \in 1..Len(as) |-> AssetDict(as[i])])

save_portfolio(name, as) ==
    Dumps(PyDict(<< <<KeyNome, PyStr(name)>>,
                    <<KeyAssets, AssetDicts(as)>>,
                    <<KeyVersione, PyStr(Versione)>> >>), 0)

\* the caller gets the pair, the ValueError of line 294, or the
\* AttributeError of data.get on a value that is no dict
LoadOutcome(data) ==
    IF ~data.ok THEN [outcome |-> "ValueError"]
    ELSE IF data.val.t = "dict"
    THEN [outcome |-> "returned",
          name |-> DictGet(data.val.v, KeyNome, PyStr(<<>>)),
          assets |-> DictGet(data.val.v, KeyAssets, PyList(<<>>))]
    ELSE [outcome |-> "AttributeError"]

load_portfolio(text) == Once(Loads(text), LoadOutcome)

---------------------------------------------------------------------------
(* Inputs.                                                                 *)

MaxAssets == 3

\* the months of a plan that are simulated; a longer plan is not followed further
MaxMonths == 4

PositionNames == <<"A", "B", "C", "D">>

\* how the rows are named: all different, all alike, or the first left blank
NamePatterns == {"distinct", "same", "blank_first"}

NameAt(pattern, i) ==
    CASE pattern = "distinct" -> PositionNames[i]
      [] pattern = "same" -> "A"
      [] OTHER -> IF i = 1 THEN "" ELSE PositionNames[i]

AssetLists(Values, Targets) ==
    UNION {{[i \in 1..k |-> [name |-> NameAt(p, i),
                             current_value |-> v[i],
                             target |-> t[i]]] :
             p \in NamePatterns, v \in [1..k -> Values], t \in [1..k -> Targets]} :
           k \in 1..MaxAssets}

\* The sidebar of main(): values in euro, targets in percent (two of them off
\* 50 by 0.004 and by 0.01), and the two amounts of lines 401-418.
SidebarValues == {Zero, R(200, 1), R(800, 1)}
SidebarTargets == {Zero, R(25, 1), R(50, 1), R(12499, 250), R(4999, 100), R(100, 1)}
SidebarAdditional == {Zero, R(100, 1), R(1000, 1)}
SidebarMonthly == {Zero, R(100, 1), R(300, 1), R(1000, 1)}

\* Arguments of a direct caller of the methods: values to the cent, amounts
\* down to half a cent.
CallerValues == {Zero, R(100, 1), R(10001, 100), R(200, 1)}
CallerTargets == {Zero, R(25, 1), R(50, 1)}
CallerAdditional == {R(1, 200), R(100, 1), R(1000, 1)}
CallerMonthly == {R(1, 100), R(100, 1), R(300, 1), R(1000, 1)}

\* Portfolios handed to save_portfolio, and texts handed to load_portfolio
\* that it did not write.
MaxSaved == 2
SavedNames == {<<>>, <<"P", " ", "1">>, <<"é", "\"", "\\">>}
SavedAssetNames == {<<>>, <<"A">>, <<"ü", "\"", "\n">>}
SavedValues == {Zero, R(800, 1), R(10001, 100)}
SavedTargets == {R(50, 1), R(4999, 100)}
SavedAssetLists ==
    UNION {[1..k -> [name : SavedAssetNames, current_value : SavedValues,
                     target : SavedTargets]] : k \in 0..MaxSaved}

UploadedTexts ==
    {\* []
     <<"[", "]">>,
     \* null
     <<"n", "u", "l", "l">>,
     \* 42
     <<"4", "2">>,
     \* "P"
     <<"\"", "P", "\"">>,
     \* {}
     <<"{", "}">>,
     \* {"assets": []}
     <<"{", "\"", "a", "s", "s", "e", "t", "s", "\"", ":", " ", "[", "]",
       "}">>,
     \* {"nome_portafoglio": "P"}
     <<"{", "\"", "n", "o", "m", "e", "_", "p", "o", "r", "t", "a", "f",
       "o", "g", "l", "i", "o", "\"", ":", " ", "\"", "P", "\"", "}">>,
     \* {"name": "P", "assets": [{"current_value": 800, "target": 50.5}]}
     <<"{", "\"", "n", "a", "m", "e", "\"", ":", " ", "\"", "P", "\"",
       ",", " ", "\"", "a", "s", "s", "e", "t", "s", "\"", ":", " ",
       "[", "{", "\"", "c", "u", "r", "r", "e", "n", "t", "_", "v",
       "a", "l", "u", "e", "\"", ":", " ", "8", "0", "0", ",", " ",
       "\"", "t", "a", "r", "g", "e", "t", "\"", ":", " ", "5", "0",
       ".", "5", "}", "]", "}">>,
     \* (the empty text)
     <<>>,
     \* {"assets": [1,]}
     <<"{", "\"", "a", "s", "s", "e", "t", "s", "\"", ":", " ", "[", "1",
       ",", "]", "}">>,
     \* {"nome_portafoglio": "P"
     <<"{", "\"", "n", "o", "m", "e", "_", "p", "o", "r", "t", "a", "f",
       "o", "g", "l", "i", "o", "\"", ":", " ", "\"", "P", "\"">>,
     \* ciao
     <<"c", "i", "a", "o">>,
     \*  {"nome_portafoglio": "a", "nome_portafoglio": "b"} and a line break
     <<" ", "{", "\"", "n", "o", "m", "e", "_", "p", "o", "r", "t", "a",
       "f", "o", "g", "l", "i", "o", "\"", ":", " ", "\"", "a", "\"",
       ",", " ", "\"", "n", "o", "m", "e", "_", "p", "o", "r", "t",
       "a", "f", "o", "g", "l", "i", "o", "\"", ":", " ", "\"", "b",
       "\"", "}", "\n">>}

---------------------------------------------------------------------------
(* State.                                                                  *)

NoData == [total_value |-> Zero, assets_data |-> <<>>]
NoLump == [called |-> FALSE]
NoParams == [additional_amount |-> Zero, monthly_amount |-> Zero]
NoPac == [phase |-> "idle"]
NoLoad == [outcome |-> "none"]

InitCommon ==
    /\ surfaced = "none"
    /\ invoked = {}
    /\ portfolio_data = NoData
    /\ rebalancing_df = <<>>
    /\ lump = NoLump
    /\ pac = NoPac
    /\ json_data = <<>>
    /\ loaded = NoLoad

ValidAssets(as) ==
    SelectSeq(as, LAMBDA a : a.name # "" /\ Gt(a.current_value, Zero))

\* The amount inputs exist once the targets are accepted (lines 395-418).
\* A portfolio with a fractional target is planned with no monthly amount:
\* its plan needs numbers beyond the integers of the model checker.
SidebarParamsOf(as, valid_assets) ==
    IF valid_assets = <<>> \/ ~validate_targets(valid_assets).is_valid
    THEN {NoParams}
    ELSE {[additional_amount |-> a, monthly_amount |-> m] :
            a \in SidebarAdditional,
            m \in IF \E i \in 1..Len(as) : as[i].target.d # 1
                  THEN {Zero} ELSE SidebarMonthly}

SidebarParams(as) ==
    Once(ValidAssets(as), LAMBDA valid_assets : SidebarParamsOf(as, valid_assets))

\* the session after the inputs of the sidebar (main, lines 336-418)
Init ==
    /\ pc = "sidebar"
    /\ assets \in AssetLists(SidebarValues, SidebarTargets)
    /\ portfolio_name = ""
    /\ InitCommon
    /\ params \in SidebarParams(assets)

\* a direct caller of the PortfolioManager methods
InitEngine ==
    /\ pc = "caller"
    /\ assets \in AssetLists(CallerValues, CallerTargets) \cup {<<>>}
    /\ portfolio_name = ""
    /\ InitCommon
    /\ params = NoParams

\* a session that saves its portfolio or is handed a text to load
InitJson ==
    /\ pc = "session"
    /\ assets \in SavedAssetLists
    /\ portfolio_name \in SavedNames
    /\ InitCommon
    /\ params = NoParams

(* main, lines 384-445: validation of the targets and the early returns    *)

Main ==
    /\ pc = "sidebar"
    /\ \E valid_assets \in {ValidAssets(assets)} :
           IF valid_assets # <<>> /\ validate_targets(valid_assets).is_valid
           THEN /\ surfaced' = "success"
                /\ portfolio_data' = calculate_portfolio_metrics(valid_assets)
                /\ pc' = "tab1"
           ELSE /\ surfaced' = IF valid_assets = <<>> THEN "none" ELSE "error"
                /\ pc' = IF valid_assets = <<>> THEN "info" ELSE "warning"
                /\ UNCHANGED portfolio_data
    /\ UNCHANGED <<assets, portfolio_name, invoked, rebalancing_df, lump, params,
                   pac, json_data, loaded>>

\* calculate_portfolio_metrics called on the assets as they are
Metrics ==
    /\ pc = "caller"
    /\ portfolio_data' = calculate_portfolio_metrics(assets)
    /\ pc' = "ready"
    /\ UNCHANGED <<assets, portfolio_name, surfaced, invoked, rebalancing_df,
                   lump, params, pac, json_data, loaded>>

(* the three strategies, called at position from and returning to position to *)

Standard(from, to) ==
    /\ pc = from
    /\ rebalancing_df' = calculate_standard_rebalancing(portfolio_data)
    /\ invoked' = invoked \cup {"standard"}
    /\ pc' = to
    /\ UNCHANGED <<assets, portfolio_name, surfaced, portfolio_data, lump, params,
                   pac, json_data, loaded>>

LumpSum(from, to, additional_amount) ==
    /\ pc = from
    /\ lump' = [called |-> TRUE] @@
               calculate_lump_sum_rebalancing(portfolio_data, additional_amount)
    /\ invoked' = invoked \cup {"lump_sum"}
    /\ pc' = to
    /\ UNCHANGED <<assets, portfolio_name, surfaced, portfolio_data,
                   rebalancing_df, pac, json_data, loaded>>

\* calculate_pac_rebalancing, lines 124-153
PacCall(from, to, monthly_amount) ==
    /\ pc = from
    /\ invoked' = invoked \cup {"pac"}
    /\ \E total_deficit \in {TotalDeficit(portfolio_data)} :
           IF AlreadyBalanced(total_deficit)
           THEN /\ pac' = [phase |-> "returned",
                           monthly_amount |-> monthly_amount,
                           total_deficit |-> total_deficit,
                           result |-> [months_needed |-> 0,
                                       plan |-> <<>>,
                                       message |-> "already balanced"]]
                /\ pc' = to
           ELSE /\ pac' = [phase |-> "loop",
                           monthly_amount |-> monthly_amount,
                           total_deficit |-> total_deficit,
                           deficits |-> Deficits(portfolio_data),
                           months_planned |->
                               MonthsNeeded(total_deficit, monthly_amount),
                           month |-> 1,
                           current_values |-> InitialValues(portfolio_data),
                           pac_plan |-> <<>>,
                           simulated |-> <<>>]
                /\ pc' = "pac"
    /\ UNCHANGED <<assets, portfolio_name, surfaced, portfolio_data,
                   rebalancing_df, lump, json_data, loaded>>

(* main, lines 484-505                                                     *)
Tab1 == Standard("tab1", "tab2") /\ UNCHANGED params

(* main, lines 507-525                                                     *)
Tab2 ==
    IF Gt(params.additional_amount, Zero)
    THEN LumpSum("tab2", "tab3", params.additional_amount) /\ UNCHANGED params
    ELSE /\ pc = "tab2"
         /\ pc' = "tab3"
         /\ UNCHANGED <<assets, portfolio_name, surfaced, invoked, portfolio_data,
                        rebalancing_df, lump, params, pac, json_data, loaded>>

(* main, lines 527-566                                                     *)
Tab3 ==
    IF Gt(params.monthly_amount, Zero)
    THEN PacCall("tab3", "done", params.monthly_amount) /\ UNCHANGED params
    ELSE /\ pc = "tab3"
         /\ pc' = "done"
         /\ UNCHANGED <<assets, portfolio_name, surfaced, invoked, portfolio_data,
                        rebalancing_df, lump, params, pac, json_data, loaded>>

(* the methods called directly, each on the snapshot                       *)
CallStandard == Standard("ready", "done") /\ UNCHANGED params

CallLumpSum ==
    \E a \in CallerAdditional :
        /\ LumpSum("ready", "done", a)
        /\ params' = [params EXCEPT !.additional_amount = a]

\* A plan is asked for portfolios valued in whole euro: the plan of one valued
\* to the cent needs numbers beyond the integers of the model checker.
CallPac ==
    \E m \in CallerMonthly :
        /\ \A i \in 1..Len(assets) : assets[i].current_value.d = 1
        /\ PacCall("ready", "done", m)
        /\ params' = [params EXCEPT !.monthly_amount = m]

AfterMonthNoBreak(p, step) ==
    IF DOMAIN step.month_data # {}
    THEN [p EXCEPT !.current_values = step.current_values,
                   !.pac_plan = Append(@, [Mese |-> p.month,
                                           shown |-> step.month_data,
                                           before |-> p.current_values,
                                           shares |-> step.shares,
                                           routed |-> step.routed,
                                           added |-> step.added,
                                           leftover |-> step.leftover]),
                   !.simulated = Append(@, p.month),
                   !.month = @ + 1]
    ELSE [p EXCEPT !.simulated = Append(@, p.month),
                   !.month = @ + 1]

\* lines 208-213: the month is recorded, or the loop is left
AfterMonth(p, step) ==
    IF DOMAIN step.month_data # {}
    THEN [p EXCEPT !.current_values = step.current_values,
                   !.pac_plan = Append(@, [Mese |-> p.month,
                                           shown |-> step.month_data,
                                           before |-> p.current_values,
                                           shares |-> step.shares,
                                           routed |-> step.routed,
                                           added |-> step.added,
                                           leftover |-> step.leftover]),
                   !.simulated = Append(@, p.month),
                   !.month = @ + 1]
    ELSE [p EXCEPT !.phase = "break",
                   !.simulated = Append(@, p.month)]

(* one pass of the loop at lines 155-213                                   *)
PacMonth ==
    /\ pc = "pac"
    /\ pac.phase = "loop"
    /\ pac.month <= pac.months_planned
    /\ pac.month <= MaxMonths
    /\ \E step \in {MonthStep(portfolio_data, pac.deficits, pac.current_values,
                                pac.monthly_amount)} :
           pac' = AfterMonth(pac, step)
    /\ UNCHANGED <<pc, assets, portfolio_name, surfaced, invoked, portfolio_data,
                   rebalancing_df, lump, params, json_data, loaded>>

(* lines 215-232, after the loop has ended                                 *)
PacEnd ==
    /\ pc = "pac"
    /\ pac.phase = "break" \/ (pac.phase = "loop" /\ pac.month > pac.months_planned)
    /\ pac' = [pac EXCEPT !.phase = "returned"] @@
              [result |->
                 [months_needed |-> Len(pac.pac_plan),
                  plan |-> pac.pac_plan,
                  total_invested |-> Mul(R(Len(pac.pac_plan), 1), pac.monthly_amount),
                  final_portfolio_value |-> SumValues(pac.current_values),
                  balanced |-> Balanced(portfolio_data, pac.current_values)]]
    /\ pc' = "done"
    /\ UNCHANGED <<assets, portfolio_name, surfaced, invoked, portfolio_data,
                   rebalancing_df, lump, params, json_data, loaded>>

(* save_portfolio, lines 279-286                                           *)
Save ==
    /\ pc = "session"
    /\ json_data' = save_portfolio(portfolio_name, assets)
    /\ pc' = "saved"
    /\ UNCHANGED <<assets, portfolio_name, surfaced, invoked, portfolio_data,
                   rebalancing_df, lump, params, pac, loaded>>

\* a text from elsewhere
Upload ==
    /\ pc = "session"
    /\ json_data' \in UploadedTexts
    /\ pc' = "uploaded"
    /\ UNCHANGED <<assets, portfolio_name, surfaced, invoked, portfolio_data,
                   rebalancing_df, lump, params, pac, loaded>>

(* load_portfolio, lines 288-294                                           *)
Load ==
    /\ pc \in {"saved", "uploaded"}
    /\ loaded' = load_portfolio(json_data)
    /\ pc' = IF pc = "saved" THEN "reloaded" ELSE "read"
    /\ UNCHANGED <<assets, portfolio_name, surfaced, invoked, portfolio_data,
                   rebalancing_df, lump, params, pac, json_data>>

Next == Main \/ Tab1 \/ Tab2 \/ Tab3 \/ PacMonth \/ PacEnd

Spec == Init /\ [][Next]_vars

NextEngine == Metrics \/ CallStandard \/ CallLumpSum \/ CallPac \/ PacMonth \/ PacEnd

SpecEngine == InitEngine /\ [][NextEngine]_vars

\* a call of a method runs to its end: no step that can be taken is put off
\* for ever
SpecEngineLive == SpecEngine /\ WF_vars(NextEngine)

NextJson == Save \/ Upload \/ Load

SpecJson == InitJson /\ [][NextJson]_vars

---------------------------------------------------------------------------
(* Properties.                                                             *)

\* the places of a sequence that satisfy Keep, in order
Places(n, Keep(_)) == SelectSeq([i \in 1..n |-> i], Keep)

\* the gap of entry i of the snapshot: target value less current value
Gap(i) ==
    Sub(Mul(Div(portfolio_data.assets_data[i].pct_target, Hundred),
            portfolio_data.total_value),
        portfolio_data.assets_data[i].valore_attuale)

TradedPlaces ==
    Places(Len(portfolio_data.assets_data), LAMBDA i : Gt(Abs(Gap(i)), Cent))

\* C1: calculate_standard_rebalancing gives one row to each snapshot entry
\* whose gap exceeds one cent in size and none to any other entry: the rows
\* follow the order of those entries, a row is a Buy ('Acquista') of the gap
\* iff the gap is above 0.01 and a Sell ('Vendi') of |gap| iff it is below
\* -0.01; when the names of the snapshot differ no name is in two rows, and a
\* snapshot whose gaps are all within one cent gives no row.
C1_StandardRows ==
    "standard" \in invoked =>
        /\ Len(rebalancing_df) = Len(TradedPlaces)
        /\ \A j \in 1..Len(rebalancing_df) :
              /\ rebalancing_df[j].Asset =
                     portfolio_data.assets_data[TradedPlaces[j]].nome
              /\ rebalancing_df[j].Azione \in {"Acquista", "Vendi"}
              /\ rebalancing_df[j].Azione = "Acquista"
                     <=> Gt(Gap(TradedPlaces[j]), Cent)
              /\ rebalancing_df[j].Azione = "Vendi"
                     <=> Lt(Gap(TradedPlaces[j]), Neg(Cent))
              /\ rebalancing_df[j].Importo_num = Abs(Gap(TradedPlaces[j]))
        /\ (\A i, k \in 1..Len(portfolio_data.assets_data) :
                i # k => portfolio_data.assets_data[i].nome
                             # portfolio_data.assets_data[k].nome)
              => \A j, k \in 1..Len(rebalancing_df) :
                     j # k => rebalancing_df[j].Asset # rebalancing_df[k].Asset
        /\ (\A i \in 1..Len(portfolio_data.assets_data) : Le(Abs(Gap(i)), Cent))
              => rebalancing_df = <<>>

\* a snapshot with a Buy row, a Sell row and an entry that gets no row
C1_Witness ==
    /\ "standard" \in invoked
    /\ \E j \in 1..Len(rebalancing_df) : rebalancing_df[j].Azione = "Acquista"
    /\ \E j \in 1..Len(rebalancing_df) : rebalancing_df[j].Azione = "Vendi"
    /\ Len(rebalancing_df) < Len(portfolio_data.assets_data)

\* needed of entry i for the contribution of the last lump-sum call
LumpNeeded(i) ==
    Max(Zero,
        Sub(Mul(Div(portfolio_data.assets_data[i].pct_target, Hundred),
                Add(portfolio_data.total_value, lump.additional_amount)),
            portfolio_data.assets_data[i].valore_attuale))

\* the entries that get a row: those that need more than one cent
LumpPlaces ==
    Places(Len(portfolio_data.assets_data), LAMBDA i : Gt(LumpNeeded(i), Cent))

LumpAmounts == [j \in 1..Len(lump.df) |-> lump.df[j].Importo_num]

\* the rows stand for the entries that need more than one cent, in order
LumpRowsPlaced ==
    /\ Len(lump.df) = Len(LumpPlaces)
    /\ \A j \in 1..Len(lump.df) :
          lump.df[j].Asset = portfolio_data.assets_data[LumpPlaces[j]].nome

\* C2: with total_needed the sum of needed over the entries that need more
\* than 0.01 (the entries that get a row): if total_needed <= C the amount
\* computed for every row is the unscaled needed of its entry; if
\* total_needed > C the computed amounts sum to C and amount / needed is the
\* same for every row, namely C / total_needed.  The frame returned shows
\* each amount as a text of two decimals.
C2_LumpScaling ==
    lump.called =>
        /\ LumpRowsPlaced
        /\ lump.returned = DropImportoNum(lump.df)
        /\ \A j \in 1..Len(lump.df) :
              lump.df[j].Da_Investire = Format2(lump.df[j].Importo_num)
        /\ IF Le(SumSeq([j \in 1..Len(LumpPlaces) |-> LumpNeeded(LumpPlaces[j])]),
                 lump.additional_amount)
           THEN \A j \in 1..Len(lump.df) :
                    lump.df[j].Importo_num = LumpNeeded(LumpPlaces[j])
           ELSE /\ SumSeq(LumpAmounts) = lump.additional_amount
                /\ \A j \in 1..Len(lump.df) :
                      Div(lump.df[j].Importo_num, LumpNeeded(LumpPlaces[j]))
                          = Div(lump.additional_amount,
                                SumSeq([k \in 1..Len(LumpPlaces) |->
                                           LumpNeeded(LumpPlaces[k])]))

\* the contribution falls short of the needs of two entries, and is shared
C2_Witness ==
    /\ lump.called
    /\ lump.warning
    /\ Len(lump.df) >= 2
    /\ \E j \in 1..Len(lump.df) :
          Lt(lump.df[j].Importo_num, LumpNeeded(LumpPlaces[j]))

\* C2 as stated: total_needed is the sum of needed over all the entries
C2_AsStated ==
    lump.called =>
        /\ LumpRowsPlaced
        /\ IF Le(SumSeq([i \in 1..Len(portfolio_data.assets_data) |-> LumpNeeded(i)]),
                 lump.additional_amount)
           THEN \A j \in 1..Len(lump.df) :
                    lump.df[j].Importo_num = LumpNeeded(LumpPlaces[j])
           ELSE /\ SumSeq(LumpAmounts) = lump.additional_amount
                /\ \A j, k \in 1..Len(lump.df) :
                      Div(lump.df[j].Importo_num, LumpNeeded(LumpPlaces[j]))
                          = Div(lump.df[k].Importo_num, LumpNeeded(LumpPlaces[k]))

\* C3: whenever the plan returned by calculate_pac_rebalancing has at least
\* one month, every asset ends within 0.5 of its target percentage
\* (balanced is true).
C3_AsStated ==
    (pac.phase = "returned" /\ pac.result.months_needed >= 1)
        => pac.result.balanced

\* the entries below their target percentage in the snapshot
UnderPlaces ==
    Places(Len(portfolio_data.assets_data),
           LAMBDA i : Lt(portfolio_data.assets_data[i].pct_attuale,
                         portfolio_data.assets_data[i].pct_target))

UnderTargetSum ==
    SumSeq([j \in 1..Len(UnderPlaces) |->
               portfolio_data.assets_data[UnderPlaces[j]].pct_target])

\* the least X >= 0 that, spent on the underweight entries alone, brings
\* each of them to its target percentage of total_value + X:
\* X = sum over them of (target/100 * (total_value + X) - value)
ModeBNeeded ==
    Div(SumSeq([j \in 1..Len(UnderPlaces) |-> Gap(UnderPlaces[j])]),
        Sub(R(1, 1), Div(UnderTargetSum, Hundred)))

IsEightHundredTwoHundred ==
    /\ Len(portfolio_data.assets_data) = 2
    /\ portfolio_data.assets_data[1].valore_attuale = R(800, 1)
    /\ portfolio_data.assets_data[2].valore_attuale = R(200, 1)
    /\ portfolio_data.assets_data[1].pct_target = R(50, 1)
    /\ portfolio_data.assets_data[2].pct_target = R(50, 1)

\* C4: the period count planned is ceil(total_needed / P) with total_needed
\* the contribution that brings every underweight asset to its target
\* percentage of the grown total, which is 600 (within 0.01) for the values
\* {800, 200} with the targets {50%, 50%}.
C4_AsStated ==
    ("months_planned" \in DOMAIN pac /\ Lt(UnderTargetSum, Hundred)) =>
        /\ pac.months_planned = Ceil(Div(ModeBNeeded, pac.monthly_amount))
        /\ IsEightHundredTwoHundred
              => Le(Abs(Sub(pac.total_deficit, R(600, 1))), Cent)

\* C5: with N = ceil(total_deficit / P) the planned count, the plan never
\* holds more than N periods, the amounts added in a period (proportional
\* shares and leftover) never exceed P in total, and so all the amounts of
\* the plan never exceed N * P; the result reports the periods of the plan.
C5_PlanWithinBudget ==
    "pac_plan" \in DOMAIN pac =>
        /\ pac.months_planned = Ceil(Div(pac.total_deficit, pac.monthly_amount))
        /\ Len(pac.pac_plan) <= pac.months_planned
        /\ \A m \in 1..Len(pac.pac_plan) :
              Le(SumValues(pac.pac_plan[m].added), pac.monthly_amount)
        /\ Le(SumSeq([m \in 1..Len(pac.pac_plan) |->
                         SumValues(pac.pac_plan[m].added)]),
              Mul(R(pac.months_planned, 1), pac.monthly_amount))
        /\ pac.phase = "returned"
              => /\ pac.result.months_needed = Len(pac.pac_plan)
                 /\ pac.result.months_needed <= pac.months_planned

\* a plan returned with several periods, one of them shared by two assets
C5_Witness ==
    /\ pac.phase = "returned"
    /\ "pac_plan" \in DOMAIN pac
    /\ Len(pac.pac_plan) >= 2
    /\ \E m \in 1..Len(pac.pac_plan) :
          Cardinality(DOMAIN pac.pac_plan[m].added) >= 2

SumTargetValues ==
    SumSeq([i \in 1..Len(portfolio_data.assets_data) |->
               portfolio_data.assets_data[i].valore_target])

SnapshotTargetSum ==
    SumSeq([i \in 1..Len(portfolio_data.assets_data) |->
               portfolio_data.assets_data[i].pct_target])

\* C6: for a snapshot of assets whose targets were accepted, the target
\* values of the entries sum to total_value * (sum of the targets) / 100,
\* which is within 0.0001 * total_value of total_value and is total_value
\* itself when the targets sum to exactly 100.
C6_TargetValues ==
    surfaced = "success" =>
        /\ SumTargetValues
               = Mul(portfolio_data.total_value, Div(SnapshotTargetSum, Hundred))
        /\ Le(Abs(Sub(SumTargetValues, portfolio_data.total_value)),
              Mul(portfolio_data.total_value, R(1, 10000)))
        /\ SnapshotTargetSum = Hundred
              => SumTargetValues = portfolio_data.total_value

\* accepted targets that do not sum to 100: the target values miss the total
C6_Witness ==
    /\ surfaced = "success"
    /\ SnapshotTargetSum # Hundred
    /\ SumTargetValues # portfolio_data.total_value

\* C6 as stated: the target values sum to total_value within 1e-6
C6_AsStated ==
    surfaced = "success" =>
        Le(Abs(Sub(SumTargetValues, portfolio_data.total_value)), R(1, 1000000))

\* |sum of the targets of the valid assets - 100|
TargetDeviation ==
    Abs(Sub(SumSeq(TargetsOf(ValidAssets(assets))), Hundred))

SavedShape(data) ==
    /\ data.ok
    /\ data.val.t = "dict"
    /\ [i \in 1..Len(data.val.v) |-> data.val.v[i][1]]
           = <<KeyNome, KeyAssets, KeyVersione>>
    /\ DictGet(data.val.v, KeyVersione, PyNone) = PyStr(Versione)

\* C8: load_portfolio(save_portfolio(name, assets)) returns the name and the
\* list of asset records as they were saved, in order and field by field,
\* also for names with non-ASCII characters, quotes and line breaks and for
\* assets of value 0; the text saved carries nome_portafoglio, assets and
\* versione = "1.0".
C8_RoundTrip ==
    /\ pc \in {"saved", "reloaded"} => SavedShape(Loads(json_data))
    /\ pc = "reloaded" =>
          loaded = [outcome |-> "returned",
                    name |-> PyStr(portfolio_name),
                    assets |-> AssetDicts(assets)]

\* two assets reloaded, one of value 0, under names that need escaping
C8_Witness ==
    /\ pc = "reloaded"
    /\ loaded.outcome = "returned"
    /\ portfolio_name = <<"é", "\"", "\\">>
    /\ Len(assets) = 2
    /\ \E i \in 1..2 : assets[i].current_value = Zero
    /\ \E i \in 1..2 : assets[i].name = <<"ü", "\"", "\n">>

\* C9: load_portfolio either returns the pair, with '' and [] for the fields
\* that are missing, or fails with ValueError, which it does when the text
\* is no JSON or its top level is no object; it fails in no other way.
C9_AsStated ==
    pc \in {"reloaded", "read"} =>
        /\ loaded.outcome \in {"returned", "ValueError"}
        /\ loaded.outcome = "ValueError"
               <=> (~Loads(json_data).ok \/ Loads(json_data).val.t # "dict")

\* C10: the already-balanced outcome of calculate_pac_rebalancing (no month,
\* empty plan, the message) is returned only for a snapshot that has an
\* entry and no entry more than the tolerance below its target.
C10_AsStated ==
    (pac.phase = "returned" /\ "message" \in DOMAIN pac.result) =>
        /\ Len(portfolio_data.assets_data) >= 1
        /\ \A i \in 1..Len(portfolio_data.assets_data) : Le(Gap(i), Cent)

\* the share of entry i in the total after the contribution
LumpShare(i) ==
    Mul(Div(portfolio_data.assets_data[i].pct_target, Hundred),
        Add(portfolio_data.total_value, lump.additional_amount))

\* C11: the result of calculate_lump_sum_rebalancing has a row for an asset
\* iff the amount it receives in the end, after any scaling, is above 0.01:
\* the rows stand for the entries that receive money, every amount reported
\* is above 0.01 (in number and as the text of two decimals), and an asset
\* whose value is at or above its share of the new total has no row.
C11_AsStated ==
    lump.called =>
        /\ LumpRowsPlaced
        /\ \A j \in 1..Len(lump.df) :
              /\ Gt(lump.df[j].Importo_num, Cent)
              /\ lump.returned[j].Da_Investire > 1
        /\ \A i \in 1..Len(portfolio_data.assets_data) :
              Le(LumpShare(i), portfolio_data.assets_data[i].valore_attuale)
                  => \A j \in 1..Len(LumpPlaces) : LumpPlaces[j] # i

\* the immediate target of a target percentage in period m of the plan: its
\* share of the total at the start of the period plus the monthly amount
ImmediateTarget(m, pct_target) ==
    Mul(Div(pct_target, Hundred),
        Add(SumValues(pac.pac_plan[m].before), pac.monthly_amount))

\* C12: in every period recorded, an asset that receives a proportional
\* share stands, after the shares, at no more than its target percentage of
\* (total at the start of the period + P); a leftover is then added whole to
\* the most underweight asset, and may carry that asset past this value.
C12_SharesCapped ==
    "pac_plan" \in DOMAIN pac =>
        \A m \in 1..Len(pac.pac_plan) :
            /\ \A nm \in DOMAIN pac.pac_plan[m].shares :
                  Le(Add(pac.pac_plan[m].before[nm], pac.pac_plan[m].shares[nm]),
                     ImmediateTarget(m, pac.deficits[nm].target_pct))
            /\ \A nm \in DOMAIN pac.pac_plan[m].added :
                  Add(pac.pac_plan[m].before[nm], pac.pac_plan[m].added[nm])
                      = Add(Add(pac.pac_plan[m].before[nm],
                                IF nm \in DOMAIN pac.pac_plan[m].shares
                                THEN pac.pac_plan[m].shares[nm] ELSE Zero),
                            IF nm \in DOMAIN pac.pac_plan[m].routed
                            THEN pac.pac_plan[m].routed[nm] ELSE Zero)

\* a period whose shares are capped at the needs, with a leftover routed
C12_Witness ==
    /\ "pac_plan" \in DOMAIN pac
    /\ \E m \in 1..Len(pac.pac_plan) :
          /\ pac.pac_plan[m].leftover
          /\ \E nm \in DOMAIN pac.pac_plan[m].shares :
                Add(pac.pac_plan[m].before[nm], pac.pac_plan[m].shares[nm])
                    = ImmediateTarget(m, pac.deficits[nm].target_pct)

\* C12 as stated: after the shares and the leftover, every asset that
\* received money stands at no more than its immediate target
C12_AsStated ==
    "pac_plan" \in DOMAIN pac =>
        \A m \in 1..Len(pac.pac_plan) :
            \A nm \in DOMAIN pac.pac_plan[m].added :
                \E i \in 1..Len(portfolio_data.assets_data) :
                    /\ portfolio_data.assets_data[i].nome = nm
                    /\ Le(Add(pac.pac_plan[m].before[nm], pac.pac_plan[m].added[nm]),
                          ImmediateTarget(m, portfolio_data.assets_data[i].pct_target))

\* the loop was left at a period that produced no allocation
StoppedEarly ==
    /\ Len(pac.simulated) = Len(pac.pac_plan) + 1
    /\ Len(pac.pac_plan) < pac.months_planned
    /\ DOMAIN MonthStep(portfolio_data, pac.deficits, pac.current_values,
                        pac.monthly_amount).month_data = {}

\* the loop ran through period N, and recorded it
StoppedExhausted ==
    /\ Len(pac.simulated) = Len(pac.pac_plan)
    /\ Len(pac.pac_plan) = pac.months_planned

\* the periods simulated are 1, 2, ... in order, each recorded under its
\* number except a last one that produced nothing
LoopInOrder ==
    "pac_plan" \in DOMAIN pac =>
        /\ pac.simulated = [k \in 1..Len(pac.simulated) |-> k]
        /\ Len(pac.simulated) <= pac.months_planned
        /\ \A m \in 1..Len(pac.pac_plan) : pac.pac_plan[m].Mese = m
        /\ pac.phase = "loop" =>
              /\ Len(pac.simulated) = Len(pac.pac_plan)
              /\ pac.month = Len(pac.pac_plan) + 1
        /\ pac.phase = "break" => StoppedEarly
        /\ pac.phase = "returned" =>
              /\ (StoppedEarly /\ ~StoppedExhausted)
                     \/ (StoppedExhausted /\ ~StoppedEarly)
              /\ pac.result.plan = pac.pac_plan
              /\ pac.result.months_needed = Len(pac.pac_plan)

\* C13: the loop of calculate_pac_rebalancing simulates the periods 1, 2, ...
\* in order and ends (here for a plan of at most MaxMonths periods) in one
\* of two ways: at the first period that produces no allocation, which is
\* not recorded and is the last one simulated, or after period N has been
\* recorded.  Either way the result carries the periods recorded, numbered
\* 1..periods_used, and if periods_used < N the period periods_used + 1 was
\* simulated and produced nothing.
C13_LoopEnds ==
    /\ []LoopInOrder
    /\ (pc = "pac" /\ pac.months_planned <= MaxMonths) ~> (pac.phase = "returned")

\* a call that returned after an empty first period
C13_Witness ==
    /\ pac.phase = "returned"
    /\ "pac_plan" \in DOMAIN pac
    /\ StoppedEarly

\* the values before a period are not above the values after it
NoValueDecreases ==
    \A m \in 1..Len(pac.pac_plan) :
        \A nm \in DOMAIN pac.pac_plan[m].before :
            Le(pac.pac_plan[m].before[nm],
               IF m < Len(pac.pac_plan) THEN pac.pac_plan[m + 1].before[nm]
               ELSE pac.current_values[nm])

\* final_portfolio_value - total_value of a call that has returned
ReportedAdded == Sub(pac.result.final_portfolio_value, portfolio_data.total_value)

\* C14 as stated: no value decreases from one period to the next, and
\* final_portfolio_value - total_value is at most total_invested and at
\* least total_invested less 0.01 for every recorded period.
C14_AsStated ==
    (pac.phase = "returned" /\ "pac_plan" \in DOMAIN pac) =>
        /\ NoValueDecreases
        /\ Le(ReportedAdded, pac.result.total_invested)
        /\ Le(Sub(pac.result.total_invested,
                  Mul(R(pac.result.months_needed, 1), Cent)),
              ReportedAdded)

===========================================================================
